---------------------------- MODULE Spec2Model ----------------------------
(***************************************************************************)
(* Model of the polyphonic sine synthesizer in src/src/lib.rs              *)
(* (struct SineSynth and its Plugin implementation).                       *)
(*                                                                         *)
(* Numbers.  The program computes in f64 seconds.  The model computes in   *)
(* exact arithmetic: a time is an integer count of ticks, one tick being   *)
(* 1/TicksPerSecond s, the coarsest unit in which 1/44100 s (a sample at   *)
(* the default rate), 0.0001 s (the default attack/release) and 0.01 s     *)
(* (the ramp lengths in process) are all whole.  A gain is a reduced       *)
(* fraction <<numerator, denominator>> with a positive denominator, so     *)
(* equal gains are equal values.  Floating-point rounding is not modelled. *)
(***************************************************************************)
EXTENDS Integers, Sequences, FiniteSets, TLC

VARIABLES
    attack,       \* SineSynth.attack, in ticks
    release,      \* SineSynth.release, in ticks
    sample_rate,  \* SineSynth.sample_rate, in Hz
    time,         \* SineSynth.time, in ticks
    notes,        \* SineSynth.notes: sequence of NotePress records
    call          \* the handler the host invoked last, with its arguments

vars == <<attack, release, sample_rate, time, notes, call>>

synth == <<attack, release, sample_rate, time, notes>>

-----------------------------------------------------------------------------
(* Units and inputs *)

TicksPerSecond == 100 * 44100

\* The clock is followed on a grid of hundredths of a second, up to MaxCentis
\* of them: a buffer whose end is off the grid or beyond it is not rendered.
MaxCentis == 2

Centi == TicksPerSecond \div 100

ClockValues == {k * Centi : k \in 0..MaxCentis}

\* data[1] of a MIDI event (a u8): a MIDI note number and a byte above 127
Pitches == {60, 200}

\* data[0] of a MIDI event: note off, note on, note on of channel 2
StatusBytes == {128, 144, 145}

\* data[2] of a MIDI event
Velocities == {0, 64}

\* rates the host sets (Hz): 2 and -1 samples per hundredth of a second
SampleRates == {200, -100}

\* buffer.samples().  At 200 Hz a buffer of 2 or 4 samples ends on the clock
\* grid, at -100 Hz one of 1 or 2 samples; at the default 44100 Hz only the
\* empty buffer does (a hundredth of a second is 441 samples there).
BufferLengths == {0, 1, 2, 4}

\* number of (input, output) channel pairs of a buffer
ChannelPairs == {1, 2}

\* values the host passes to set_parameter, in ticks (-1.0 s and 0.0 s)
ParameterValues == {0 - TicksPerSecond, 0}

ParameterIndexes == {0, 1, 2}

-----------------------------------------------------------------------------
(* Exact arithmetic for the f64 envelope terms *)

Abs(x) == IF x < 0 THEN 0 - x ELSE x

Max(a, b) == IF a >= b THEN a ELSE b

RECURSIVE GCD(_, _)
GCD(a, b) == IF b = 0 THEN a ELSE GCD(b, a % b)

\* n / d as a reduced fraction with positive denominator.  A zero divisor
\* gives <<1, 0>>, <<-1, 0>> (the infinities) or <<0, 0>> (NaN).
Frac(n, d) ==
    IF d = 0
    THEN <<(IF n > 0 THEN 1 ELSE IF n < 0 THEN 0 - 1 ELSE 0), 0>>
    ELSE LET g == GCD(Abs(n), Abs(d))
             s == IF d < 0 THEN 0 - 1 ELSE 1
         IN  <<(s * n) \div g, (s * d) \div g>>

One == <<1, 1>>

Zero == <<0, 1>>

FMul(x, y) == Frac(x[1] * y[1], x[2] * y[2])

FDivInt(x, k) == Frac(x[1], x[2] * k)

FSub(x, y) == Frac(x[1] * y[2] - y[1] * x[2], x[2] * y[2])

FLeq(x, y) == x[1] * y[2] <= y[1] * x[2]

FAdd(x, y) == Frac(x[1] * y[2] + y[1] * x[2], x[2] * y[2])

-----------------------------------------------------------------------------
(* struct NotePress and struct SineSynth *)

NotePress(note, pressed_time, released_time, is_pressed) ==
    [note |-> note, pressed_time |-> pressed_time,
     released_time |-> released_time, is_pressed |-> is_pressed]

\* call.status and call.pitch are data[0] and data[1] of a MIDI event (data[2]
\* is read by no handler and is not recorded); call.before tells what the pool
\* held for call.pitch when the MIDI event came in.
NoCall == [op |-> "default", status |-> 0, pitch |-> 0, before |-> "none",
           index |-> 0, value |-> 0, rate |-> 0, samples |-> 0, channels |-> 0]

voice_of(note) ==
    IF \E k \in 1..Len(notes) : notes[k].note = note /\ notes[k].is_pressed
    THEN "pressed"
    ELSE IF \E k \in 1..Len(notes) : notes[k].note = note
         THEN "releasing"
         ELSE "absent"

\* impl Default for SineSynth: attack and release 0.0001 s, 44100 Hz
Init ==
    /\ attack = TicksPerSecond \div 10000
    /\ release = TicksPerSecond \div 10000
    /\ sample_rate = 44100
    /\ time = 0
    /\ notes = <<>>
    /\ call = NoCall

\* fn time_per_sample: 1.0 / self.sample_rate, in ticks
time_per_sample == TicksPerSecond \div sample_rate

-----------------------------------------------------------------------------
(* Note events *)

\* note_on without the retain: the old voice of the pitch stays in the pool
note_on_without_retain(note) ==
    /\ notes' = Append(notes, NotePress(note, time, 0, TRUE))
    /\ UNCHANGED <<attack, release, sample_rate, time>>

\* note_on stamping the voice with 0.0 instead of self.time
note_on_pressed_at_zero(note) ==
    /\ notes' = Append(SelectSeq(notes, LAMBDA x : x.note # note),
                       NotePress(note, 0, 0, TRUE))
    /\ UNCHANGED <<attack, release, sample_rate, time>>

\* note_on of a monophonic synth: the new voice replaces the whole pool
note_on_monophonic(note) ==
    /\ notes' = <<NotePress(note, time, 0, TRUE)>>
    /\ UNCHANGED <<attack, release, sample_rate, time>>

\* note_on stamping the voice with the time of the sample after the clock
note_on_pressed_at_next_sample(note) ==
    /\ notes' = Append(SelectSeq(notes, LAMBDA x : x.note # note),
                       NotePress(note, time + time_per_sample, 0, TRUE))
    /\ UNCHANGED <<attack, release, sample_rate, time>>

note_on(note) ==
    /\ notes' = Append(SelectSeq(notes, LAMBDA x : x.note # note),
                       NotePress(note, time, 0, TRUE))
    /\ UNCHANGED <<attack, release, sample_rate, time>>

\* position(|x| x.note == note): the first index, or 0 for None
position(note) ==
    IF \E i \in 1..Len(notes) : notes[i].note = note
    THEN CHOOSE i \in 1..Len(notes) :
            /\ notes[i].note = note
            /\ \A j \in 1..(i - 1) : notes[j].note # note
    ELSE 0

\* note_off that forgets to stamp released_time
note_off_without_released_time(note) ==
    /\ LET i == position(note) IN
         IF i # 0
         THEN notes' = [notes EXCEPT ![i].is_pressed = FALSE]
         ELSE notes' = notes
    /\ UNCHANGED <<attack, release, sample_rate, time>>

note_off(note) ==
    /\ LET i == position(note) IN
         IF i # 0
         THEN notes' = [notes EXCEPT ![i].is_pressed = FALSE,
                                     ![i].released_time = time]
         ELSE notes' = notes
    /\ UNCHANGED <<attack, release, sample_rate, time>>

\* the dispatch with the MIDI convention that a note-on of velocity 0 is a
\* note-off
process_midi_event_with_velocity(data) ==
    /\ CASE data[1] = 128 -> note_off(data[2])
         [] data[1] = 144 /\ data[3] = 0 -> note_off(data[2])
         [] data[1] = 144 -> note_on(data[2])
         [] OTHER -> UNCHANGED synth
    /\ call' = [NoCall EXCEPT !.op = "process_midi_event",
                              !.status = data[1], !.pitch = data[2],
                              !.before = voice_of(data[2])]

process_midi_event(data) ==
    /\ CASE data[1] = 128 -> note_off(data[2])
         [] data[1] = 144 -> note_on(data[2])
         [] OTHER -> UNCHANGED synth
    /\ call' = [NoCall EXCEPT !.op = "process_midi_event",
                              !.status = data[1], !.pitch = data[2],
                              !.before = voice_of(data[2])]

ProcessMidiEvent ==
    \E data \in StatusBytes \X Pitches \X Velocities : process_midi_event(data)

-----------------------------------------------------------------------------
(* Host configuration *)

\* the parameter stored as the host gives it, without the max
parameter_without_floor(value) == value

\* value.max(1.0) as f64, in ticks
parameter_floor(value) == Max(value, TicksPerSecond)

set_parameter(index, value) ==
    /\ CASE index = 0 -> attack' = parameter_floor(value) /\ UNCHANGED release
         [] index = 1 -> release' = parameter_floor(value) /\ UNCHANGED attack
         [] OTHER -> UNCHANGED <<attack, release>>
    /\ UNCHANGED <<sample_rate, time, notes>>
    /\ call' = [NoCall EXCEPT !.op = "set_parameter", !.index = index,
                              !.value = value]

SetParameter ==
    \E index \in ParameterIndexes, value \in ParameterValues :
        set_parameter(index, value)

set_sample_rate(rate) ==
    /\ sample_rate' = rate
    /\ UNCHANGED <<attack, release, time, notes>>
    /\ call' = [NoCall EXCEPT !.op = "set_sample_rate", !.rate = rate]

SetSampleRate == \E rate \in SampleRates : set_sample_rate(rate)

-----------------------------------------------------------------------------
(* Rendering *)

\* let attack = 0.01; let release = 0.01; (locals of process), in ticks
process_attack == TicksPerSecond \div 100

process_release == TicksPerSecond \div 100

\* the attack gain without its ramp: full gain from the first sample on
alpha_without_ramp(note_press, t) == One

\* "Apply attack"
alpha(note_press, t) ==
    LET time_since_press == t - note_press.pressed_time IN
    IF time_since_press < process_attack
    THEN Frac(time_since_press, attack)
    ELSE One

\* the release ramp without its floor at 0.0
beta_without_floor(note_press, t) ==
    IF note_press.is_pressed
    THEN One
    ELSE FSub(One, Frac(t - note_press.released_time, process_release))

\* "Apply release"
beta(note_press, t) ==
    IF note_press.is_pressed
    THEN One
    ELSE LET time_since_release == t - note_press.released_time IN
         IF time_since_release < process_release
         THEN FSub(One, Frac(time_since_release, process_release))
         ELSE Zero

multiplier(note_press, t, num_notes) ==
    FDivInt(FMul(alpha(note_press, t), beta(note_press, t)), num_notes)

\* let num_notes = self.notes.len();
num_notes == Len(notes)

\* the time t of the sample loop at the (i + 1)-th sample of a buffer:
\* t starts at self.time and grows by per_sample after each sample
sample_time(i) == time + i * time_per_sample

\* self.time += samples as f64 * per_sample
time_after_process(samples) == time + samples * time_per_sample

\* the pool with the voices dropped whose release ramp has run out when the
\* buffer starts
notes_after_process_with_prune ==
    SelectSeq(notes, LAMBDA v :
        v.is_pressed \/ time - v.released_time < process_release)

\* process leaves self.notes as it is
notes_after_process == notes

process(samples, channels) ==
    /\ time' = time_after_process(samples)
    /\ notes' = notes_after_process
    /\ UNCHANGED <<attack, release, sample_rate>>
    /\ call' = [NoCall EXCEPT !.op = "process", !.samples = samples,
                              !.channels = channels]

Process ==
    \E samples \in BufferLengths, channels \in ChannelPairs :
        /\ time_after_process(samples) \in ClockValues
        /\ process(samples, channels)

-----------------------------------------------------------------------------

Next ==
    \/ ProcessMidiEvent
    \/ SetParameter
    \/ SetSampleRate
    \/ Process

Spec == Init /\ [][Next]_vars

\* The synth under a host that only ever sets a positive sample rate.
PositiveSampleRates == {rate \in SampleRates : rate > 0}

SetPositiveSampleRate == \E rate \in PositiveSampleRates : set_sample_rate(rate)

NextPositiveRate ==
    \/ ProcessMidiEvent
    \/ SetParameter
    \/ SetPositiveSampleRate
    \/ Process

SpecPositiveRate == Init /\ [][NextPositiveRate]_vars

-----------------------------------------------------------------------------
(* Vocabulary of the properties *)

\* the indexes i of the samples of the longest buffer the host hands over
SampleIndexes == 0..((CHOOSE n \in BufferLengths : \A m \in BufferLengths : m <= n) - 1)

\* a voice is dead at t: released, and the release ramp of process has run out
Dead(note_press, t) ==
    /\ ~note_press.is_pressed
    /\ t - note_press.released_time >= process_release

IsNoteOn(c) == c.op = "process_midi_event" /\ c.status = 144

IsNoteOff(c) == c.op = "process_midi_event" /\ c.status = 128

HasVoice(pool, note) == \E k \in 1..Len(pool) : pool[k].note = note

HasPressedVoice(pool, note) ==
    \E k \in 1..Len(pool) : pool[k].note = note /\ pool[k].is_pressed

\* clamp(x, 0, 1) of a fraction
Clamp01(x) == IF FLeq(x, Zero) THEN Zero ELSE IF FLeq(One, x) THEN One ELSE x

-----------------------------------------------------------------------------
(* Properties *)

\* C1: the pool holds at most one voice per pitch: no two positions of notes
\* carry the same note, so a note_on for a pitch that has a voice replaces it.
C1_OneVoicePerPitch ==
    \A i, j \in 1..Len(notes) : notes[i].note = notes[j].note => i = j

\* a note_on has just come in for a pitch whose voice was releasing, while the
\* other pitch has a voice too
C1_Witness ==
    /\ IsNoteOn(call)
    /\ call.before = "releasing"
    /\ Len(notes) = 2

\* C2: a completed process call leaves in the pool exactly the voices that are
\* not dead at the buffer's end time.
C2_ProcessPrunesDeadVoices ==
    [][call'.op = "process" =>
         notes' = SelectSeq(notes, LAMBDA v : ~Dead(v, time'))]_vars

\* C3: note_off(p) changes nothing of the synth when the pool has no pressed
\* voice of pitch p (unknown pitch, or a voice of p that is already releasing).
C3_NoteOffWithoutPressedVoiceIsNoOp ==
    [][(IsNoteOff(call') /\ ~HasPressedVoice(notes, call'.pitch)) =>
         UNCHANGED synth]_vars

\* C4: a voice that is dead stays dead over every note_off and process call:
\* while the pool holds a voice of its pitch, that voice is dead at the clock.
C4_DeadStaysDead ==
    [][\A k \in 1..Len(notes) :
         (Dead(notes[k], time) /\ (IsNoteOff(call') \/ call'.op = "process")) =>
             \A j \in 1..Len(notes') :
                 notes'[j].note = notes[k].note => Dead(notes'[j], time')]_vars

C6_DivisorCountsLiveVoices ==
    \A k \in 1..Len(notes) : \A i \in SampleIndexes :
        (/\ notes[k].is_pressed
         /\ sample_time(i) - notes[k].pressed_time >= process_attack) =>
            multiplier(notes[k], sample_time(i), num_notes) =
                Frac(1, Cardinality({j \in 1..Len(notes) : ~Dead(notes[j], time)}))

\* C7: after note_on(p) at clock T the pool holds a voice of pitch p with
\* pressed_time = T and is_pressed = TRUE.
C7_NoteOnCreatesPressedVoice ==
    [][IsNoteOn(call') =>
         \E k \in 1..Len(notes') :
             /\ notes'[k].note = call'.pitch
             /\ notes'[k].pressed_time = time
             /\ notes'[k].is_pressed]_vars

\* a note_on has just come in, after the clock has moved, for a pitch whose
\* voice was pressed
C7_Witness ==
    /\ IsNoteOn(call)
    /\ call.before = "pressed"
    /\ time > 0

\* C8: note_off(p) at clock T on a pressed voice of pitch p makes it releasing
\* with released_time = T and the same pressed_time; and a releasing voice is
\* pressed again only through a note_on of its pitch.
C8_NoteOffReleases ==
    [][/\ \A k \in 1..Len(notes) :
            (/\ IsNoteOff(call')
             /\ call'.pitch = notes[k].note
             /\ notes[k].is_pressed) =>
                /\ k <= Len(notes')
                /\ notes'[k] = NotePress(notes[k].note, notes[k].pressed_time,
                                         time, FALSE)
       /\ \A k \in 1..Len(notes) :
            (~notes[k].is_pressed /\ HasPressedVoice(notes', notes[k].note)) =>
                (IsNoteOn(call') /\ call'.pitch = notes[k].note)]_vars

\* a note_off has just released a pressed voice after the clock has moved
C8_Witness ==
    /\ IsNoteOff(call)
    /\ call.before = "pressed"
    /\ time > 0
    /\ \E k \in 1..Len(notes) :
         /\ notes[k].note = call.pitch
         /\ notes[k].pressed_time # time

\* C9: only process moves the clock, by samples / sample_rate whatever the
\* number of channel pairs, and the clock never decreases.
C9_ClockAdvancesOncePerBuffer ==
    [][/\ call'.op = "process" =>
            time' = time + call'.samples * (TicksPerSecond \div sample_rate)
       /\ call'.op # "process" => time' = time
       /\ time' >= time]_vars

\* C10: at every sample time t >= pressed_time the attack gain of a voice is
\* clamp((t - pressed_time) / attack, 0, 1), attack the configured parameter.
C10_AttackGainIsClampedRamp ==
    \A k \in 1..Len(notes) : \A i \in SampleIndexes :
        sample_time(i) >= notes[k].pressed_time =>
            alpha(notes[k], sample_time(i)) =
                Clamp01(Frac(sample_time(i) - notes[k].pressed_time, attack))

\* C11: at every sample time the release gain of a released voice is
\* clamp(1 - (t - released_time) / release, 0, 1), release the configured
\* parameter (SineSynth.release).
C11_ReleaseGainUsesConfiguredRelease ==
    \A k \in 1..Len(notes) : \A i \in SampleIndexes :
        ~notes[k].is_pressed =>
            beta(notes[k], sample_time(i)) =
                Clamp01(FSub(One, Frac(sample_time(i) - notes[k].released_time,
                                       release)))

\* the sum over the first n voices of alpha * beta / num_notes at time t:
\* what the sample loop adds to a sample whose signal is 1.0 for every voice
RECURSIVE MixGain(_, _)
MixGain(n, t) ==
    IF n = 0
    THEN Zero
    ELSE FAdd(MixGain(n - 1, t), multiplier(notes[n], t, num_notes))

\* C12: at every sample the sum over all voices of alpha * beta / num_notes
\* lies in [0, 1]; with an empty pool it is 0.
C12_MixGainWithinUnitRange ==
    \A i \in SampleIndexes :
        /\ FLeq(Zero, MixGain(Len(notes), sample_time(i)))
        /\ FLeq(MixGain(Len(notes), sample_time(i)), One)
        /\ notes = <<>> => MixGain(Len(notes), sample_time(i)) = Zero

\* C13: right after note_on(p) the first sample of the next buffer, rendered
\* at the voice's own pressed_time, has envelope multiplier 0 for voice p.
C13_NewVoiceStartsSilent ==
    IsNoteOn(call) =>
        \A k \in 1..Len(notes) :
            notes[k].note = call.pitch =>
                /\ sample_time(0) = notes[k].pressed_time
                /\ multiplier(notes[k], sample_time(0), num_notes) = Zero

\* a note_on has just come in after the clock has moved, next to a voice that
\* sounds at full gain
C13_Witness ==
    /\ IsNoteOn(call)
    /\ time > 0
    /\ \E k \in 1..Len(notes) :
         /\ notes[k].note # call.pitch
         /\ multiplier(notes[k], sample_time(0), num_notes) = Frac(1, 2)

\* C14: the sample rate is strictly positive in every reachable state (a zero
\* or negative rate given to set_sample_rate is rejected and not stored).
C14_SampleRateIsPositive == sample_rate > 0

\* C15: every voice of the pool has a pitch in 0..127 (a note-on pitch byte
\* outside that range is clamped before the voice is created).
C15_PitchesAreMidiNotes ==
    \A k \in 1..Len(notes) : notes[k].note \in 0..127

\* C16: attack and release are strictly positive in every reachable state.
C16_AttackAndReleaseArePositive == attack > 0 /\ release > 0

\* set_parameter has just been given a negative attack while release still
\* has its default
C16_Witness ==
    /\ call.op = "set_parameter"
    /\ call.index = 0
    /\ call.value < 0
    /\ attack = TicksPerSecond
    /\ release < attack

\* C17: process_midi_event acts on the status byte alone: 128 is note_off of
\* byte 1, 144 is note_on of byte 1 whatever the velocity, and any other
\* status leaves the whole synth as it is.
C17_MidiDispatch ==
    [][call'.op = "process_midi_event" =>
         /\ call'.status = 128 => note_off(call'.pitch)
         /\ call'.status = 144 => note_on(call'.pitch)
         /\ call'.status \notin {128, 144} => UNCHANGED synth]_vars

\* a note-on of channel 2 has just been ignored while both pitches are held
C17_Witness ==
    /\ call.op = "process_midi_event"
    /\ call.status = 145
    /\ call.before = "pressed"
    /\ Len(notes) = 2

\* C18: no step makes the pool shorter, and a pitch that has a voice keeps
\* having one: once a note_on has been processed the pool is never empty.
C18_PoolNeverShrinks ==
    [][/\ Len(notes') >= Len(notes)
       /\ \A k \in 1..Len(notes) : HasVoice(notes', notes[k].note)]_vars

\* a buffer has been rendered while every voice of the pool was dead already
C18_Witness ==
    /\ call.op = "process"
    /\ call.samples > 0
    /\ Len(notes) = 2
    /\ \A k \in 1..Len(notes) :
         /\ ~notes[k].is_pressed
         /\ time - notes[k].released_time >= 2 * process_release

\* the voices of a pool whose pitch differs from note, in their order
OtherVoices(pool, note) == SelectSeq(pool, LAMBDA x : x.note # note)

\* C19: a note_on or note_off of pitch p leaves the clock, the sample rate,
\* attack, release and the voices of the other pitches (and their order) as
\* they are; process leaves everything but the clock as it is.
C19_FrameOfNoteEventsAndProcess ==
    [][/\ (IsNoteOn(call') \/ IsNoteOff(call')) =>
            /\ UNCHANGED <<time, sample_rate, attack, release>>
            /\ OtherVoices(notes', call'.pitch) = OtherVoices(notes, call'.pitch)
       /\ call'.op = "process" =>
            UNCHANGED <<attack, release, sample_rate, notes>>]_vars

\* a note_off has just released one of two voices
C19_Witness ==
    /\ IsNoteOff(call)
    /\ call.before = "pressed"
    /\ Len(notes) = 2
    /\ \E k \in 1..Len(notes) : notes[k].is_pressed

\* C20: while the sample rate has always been positive, every voice has
\* pressed_time <= clock and every releasing voice has pressed_time <=
\* released_time <= clock, so the elapsed times process computes at the
\* samples of a buffer are never negative.
C20_TimestampsAreInThePast ==
    /\ sample_rate > 0
    /\ \A k \in 1..Len(notes) :
         /\ notes[k].pressed_time <= time
         /\ ~notes[k].is_pressed =>
                /\ notes[k].pressed_time <= notes[k].released_time
                /\ notes[k].released_time <= time
         /\ \A i \in SampleIndexes :
                /\ sample_time(i) - notes[k].pressed_time >= 0
                /\ ~notes[k].is_pressed =>
                       sample_time(i) - notes[k].released_time >= 0

\* a voice pressed, released later, and the clock has moved on since
C20_Witness ==
    \E k \in 1..Len(notes) :
        /\ ~notes[k].is_pressed
        /\ notes[k].pressed_time < notes[k].released_time
        /\ notes[k].released_time < time

=============================================================================
